---- MODULE Spec2Model ----
(***************************************************************************)
(* A model of robust_csv_parser.py: RobustCSVParser.parse,                 *)
(* RobustCSVParser._parse_frame and RobustCSVParser.parse_multifile.       *)
(*                                                                         *)
(* Text is a sequence of one-character strings; offsets are 0-based as in  *)
(* Python, so the character at offset p of a text d is d[p + 1].           *)
(* An optional value (Python's None or a value) is a sequence of length 0  *)
(* or 1.                                                                   *)
(***************************************************************************)
EXTENDS Integers, Sequences, FiniteSets, TLC

\* ------------------------------------------------------------------ bounds

\* Largest number of lines of a generated document.
MaxLines == 4

\* Largest number of lines of a generated document with timestamps.
MaxTzLines == 2

\* Largest number of lines of a file of a generated batch.
MaxBatchLines == 2

\* Largest number of files of a generated batch.
MaxFiles == 2

\* ------------------------------------------------------------ text helpers

NL == "\n"
NUL == "NUL"
None == <<>>
Some(x) == <<x>>
IsNone(o) == o = <<>>
Val(o) == o[1]

\* The stop index of slice(start_prev, None).
NoneIdx == 0 - 1

Digits == {"0", "1", "2", "3", "4", "5", "6", "7", "8", "9"}

DigitVal(c) ==
    CASE c = "0" -> 0 [] c = "1" -> 1 [] c = "2" -> 2 [] c = "3" -> 3
      [] c = "4" -> 4 [] c = "5" -> 5 [] c = "6" -> 6 [] c = "7" -> 7
      [] c = "8" -> 8 [] c = "9" -> 9

\* int(s) for a non-empty string of decimal digits.
RECURSIVE IntOf(_)
IntOf(s) ==
    IF Len(s) = 0 THEN 0
    ELSE 10 * IntOf(SubSeq(s, 1, Len(s) - 1)) + DigitVal(s[Len(s)])

IsDigits(s) == Len(s) > 0 /\ \A i \in 1..Len(s) : s[i] \in Digits

\* data[lo:hi] of Python, hi = NoneIdx standing for None.
Slice(d, lo, hi) ==
    SubSeq(d, lo + 1, IF hi = NoneIdx THEN Len(d) ELSE hi)

\* str.replace("\0", "")
RECURSIVE StripNUL(_)
StripNUL(d) ==
    IF Len(d) = 0 THEN <<>>
    ELSE IF Head(d) = NUL THEN StripNUL(Tail(d))
    ELSE <<Head(d)>> \o StripNUL(Tail(d))

\* Offset of the first occurrence of character c at or after offset p,
\* Len(d) when there is none.
RECURSIVE IndexFrom(_, _, _)
IndexFrom(d, c, p) ==
    IF p >= Len(d) THEN Len(d)
    ELSE IF d[p + 1] = c THEN p
    ELSE IndexFrom(d, c, p + 1)

\* fp.readline(): the text up to and including the first newline.
ReadLine(d) ==
    LET e == IndexFrom(d, NL, 0)
    IN  IF e = Len(d) THEN d ELSE SubSeq(d, 1, e + 1)

\* s.split(sep)[0]
FirstField(s, sep) == SubSeq(s, 1, IndexFrom(s, sep, 0))

\* s.split(sep), as a sequence of fields.
RECURSIVE Split(_, _)
Split(s, sep) ==
    LET e == IndexFrom(s, sep, 0)
    IN  IF e = Len(s) THEN <<s>>
        ELSE <<SubSeq(s, 1, e)>> \o Split(SubSeq(s, e + 2, Len(s)), sep)

RECURSIVE Flatten(_)
Flatten(ss) == IF Len(ss) = 0 THEN <<>> ELSE Head(ss) \o Flatten(Tail(ss))

\* ------------------------------------------------------- header pattern

\* A compiled pattern is a sequence of atoms: a literal character, or the
\* regular expression dot (any character but a newline).
Lit(c) == [kind |-> "lit", ch |-> c]
Dot == [kind |-> "any", ch |-> ""]

\* re.escape(s): every character stands for itself.
re_escape(s) == [i \in 1..Len(s) |-> Lit(s[i])]

\* A regular expression given as-is: "." is the dot, other characters of
\* the modelled regexes are literals.
re_asis(r) == [i \in 1..Len(r) |-> IF r[i] = "." THEN Dot ELSE Lit(r[i])]

AtomMatches(a, c) == IF a.kind = "lit" THEN c = a.ch ELSE c # NL

\* Pattern P matches the text at offset p.
MatchAt(P, d, p) ==
    /\ p + Len(P) <= Len(d)
    /\ \A i \in 1..Len(P) : AtomMatches(P[i], d[p + i])

\* `self.header_regex or re.escape(self.header_string)`
HeaderGroup(header_regex, header_string) ==
    IF ~IsNone(header_regex) /\ Val(header_regex) # <<>>
    THEN re_asis(Val(header_regex))
    ELSE re_escape(Val(header_string))

QuoteChars == {"'", "\""}

\* End offset of the match of ['"]?(P).*$ (MULTILINE) that starts at
\* offset p, or NoneIdx when the pattern does not match there.  The
\* trailing .*$ runs to the end of the line in which P ends.
MatchEnd(P, d, p) ==
    IF p < Len(d) /\ d[p + 1] \in QuoteChars /\ MatchAt(P, d, p + 1)
    THEN IndexFrom(d, NL, p + 1 + Len(P))
    ELSE IF MatchAt(P, d, p)
    THEN IndexFrom(d, NL, p + Len(P))
    ELSE NoneIdx

\* re.finditer(regex, data): the matches as [start, end], scanning from
\* offset p; after an empty match the next match must advance.
RECURSIVE Scan(_, _, _, _)
Scan(P, d, p, must_advance) ==
    IF p > Len(d) THEN <<>>
    ELSE LET e == MatchEnd(P, d, p)
         IN  IF e = NoneIdx \/ (must_advance /\ e = p)
             THEN Scan(P, d, p + 1, FALSE)
             ELSE <<[start |-> p, end |-> e]>> \o Scan(P, d, e, e = p)

finditer(P, d) == Scan(P, d, 0, FALSE)

\* ------------------------------------------------------------ tables

\* A cell value: null (NaN / NaT), a number, or a string.
Null == [t |-> "null", n |-> 0, s |-> <<>>]
Num(k) == [t |-> "num", n |-> k, s |-> <<>>]
Str(x) == [t |-> "str", n |-> 0, s |-> x]

\* Type inference of pandas.read_csv on one field.
ParseCell(f) ==
    IF f = <<>> THEN Null
    ELSE IF IsDigits(f) THEN Num(IntOf(f))
    ELSE Str(f)

\* A DataFrame: the index name (None when unnamed), the zone of a
\* timezone-aware index (None when naive), the column names, and the rows
\* as [idx, cells] with cells aligned to columns.
Frame(name, tz, columns, rows) ==
    [index_name |-> name, tz |-> tz, columns |-> columns, rows |-> rows]

EmptyFrame == Frame(None, None, <<>>, <<>>)

ColSet(f) == {f.columns[i] : i \in 1..Len(f.columns)}

ColPos(f, c) == CHOOSE i \in 1..Len(f.columns) : f.columns[i] = c

\* The cell of row r of frame f in column c.
CellOf(f, r, c) == f.rows[r].cells[ColPos(f, c)]

NonBlank(l) == l # <<>>

DigitChar(k) == CHOOSE c \in Digits : DigitVal(c) = k

\* Column names of read_csv: an empty name becomes "Unnamed: <i>", a
\* repeated name gets the suffix ".<k>".
MangledName(fields, i) ==
    LET earlier == Cardinality({j \in 1..(i - 1) : fields[j] = fields[i]})
    IN  IF fields[i] = <<>> THEN <<"Unnamed: ", DigitChar(i - 1)>>
        ELSE IF earlier > 0 THEN fields[i] \o <<".", DigitChar(earlier)>>
        ELSE fields[i]

\* A row's fields padded with empty fields up to n.
Pad(fields, n) ==
    [i \in 1..n |-> IF i <= Len(fields) THEN fields[i] ELSE <<>>]

\* Rows of a block with at most n fields; a row with more is a bad line
\* and is skipped (on_bad_lines="warn").
RECURSIVE GoodRows(_, _, _)
GoodRows(ls, sep, n) ==
    IF Len(ls) = 0 THEN <<>>
    ELSE LET fields == Split(Head(ls), sep)
         IN  IF Len(fields) > n THEN GoodRows(Tail(ls), sep, n)
             ELSE <<Pad(fields, n)>> \o GoodRows(Tail(ls), sep, n)

\* pandas.read_csv(StringIO(text), sep=sep, header=0, index_col=index_col):
\* err is "EmptyDataError" when the text has no line to take columns from.
\* index_col is None (a RangeIndex, unnamed) or Some(0) (the first column).
read_csv(text, sep, index_col) ==
    LET ls == SelectSeq(Split(text, NL), NonBlank)
    IN  IF Len(ls) = 0
        THEN [err |-> "EmptyDataError", df |-> EmptyFrame]
        ELSE
        LET hdr == Split(ls[1], sep)
            names == [i \in 1..Len(hdr) |-> MangledName(hdr, i)]
            rows == GoodRows(Tail(ls), sep, Len(hdr))
        IN  IF IsNone(index_col)
            THEN [err |-> "",
                  df |-> Frame(None, None, names,
                     [r \in 1..Len(rows) |->
                        [idx |-> Num(r - 1),
                         cells |-> [i \in 1..Len(hdr) |-> ParseCell(rows[r][i])]]])]
            ELSE [err |-> "",
                  df |-> Frame(Some(names[1]), None, Tail(names),
                     [r \in 1..Len(rows) |->
                        [idx |-> ParseCell(rows[r][1]),
                         cells |-> [i \in 1..(Len(hdr) - 1) |->
                                       ParseCell(rows[r][i + 1])]]])]

\* The positions of a sequence that satisfy keep, in order.
RECURSIVE KeptPositions(_, _, _)
KeptPositions(n, i, keep) ==
    IF i > n THEN <<>>
    ELSE (IF i \in keep THEN <<i>> ELSE <<>>) \o KeptPositions(n, i + 1, keep)

\* The frame restricted to the columns at the positions in keep.
SelectCols(f, keep) ==
    LET pos == KeptPositions(Len(f.columns), 1, keep)
    IN  Frame(f.index_name, f.tz,
              [k \in 1..Len(pos) |-> f.columns[pos[k]]],
              [r \in 1..Len(f.rows) |->
                 [idx |-> f.rows[r].idx,
                  cells |-> [k \in 1..Len(pos) |-> f.rows[r].cells[pos[k]]]]])

\* DataFrame.dropna(axis=1, how="all"): drop the columns with no non-null
\* cell (every column of a frame without rows).
dropna_all(f) ==
    SelectCols(f, {i \in 1..Len(f.columns) :
                     \E r \in 1..Len(f.rows) : f.rows[r].cells[i] # Null})

\* re.search(P, s)
re_search(P, s) == \E p \in 0..Len(s) : MatchAt(P, s, p)

\* DataFrame.filter(regex=column_regex)
filter_regex(f, column_regex) ==
    SelectCols(f, {i \in 1..Len(f.columns) :
                     re_search(re_asis(column_regex), f.columns[i])})

\* ------------------------------------------------------------ time zones

\* A zone name: "UTC", or f"Etc/GMT{k}" for an integer k.
UTC == [family |-> "UTC", k |-> 0]
EtcGMT(k) == [family |-> "Etc/GMT", k |-> k]

\* The zone database has Etc/GMT-14 .. Etc/GMT-1 and Etc/GMT0 among the
\* names f"Etc/GMT{k}" with k <= 0.
ZoneExists(z) == z.family = "UTC" \/ (z.k >= 0 - 14 /\ z.k <= 0)

\* Hours east of UTC; the sign of an Etc/GMT name is inverted.
UtcOffset(z) == IF z.family = "UTC" THEN 0 ELSE 0 - z.k

\* End offset of the run of digits that starts at offset p.
RECURSIVE DigitRun(_, _)
DigitRun(s, p) ==
    IF p < Len(s) /\ s[p + 1] \in Digits THEN DigitRun(s, p + 1) ELSE p

\* re.search(r"UTC(\+\d+)", index_name): int(m.group(1)) of the first
\* match, None when there is no match.
tz_search(index_name) ==
    LET hits == {p \in 0..Len(index_name) :
                   /\ p + 5 <= Len(index_name)
                   /\ SubSeq(index_name, p + 1, p + 4) = <<"U", "T", "C", "+">>
                   /\ index_name[p + 5] \in Digits}
    IN  IF hits = {} THEN None
        ELSE LET p == CHOOSE q \in hits : \A r \in hits : q <= r
             IN  Some(IntOf(SubSeq(index_name, p + 5, DigitRun(index_name, p + 4))))

\* pd.to_datetime(value, errors="coerce"): a field of digits is a
\* well-formed timestamp, standing for that many hours of wall-clock time;
\* anything else is coerced to NaT.
to_datetime(v) == IF v.t = "num" THEN v ELSE Null

\* pd.DatetimeIndex(values, tz=tz).tz_convert(default_tz): the instant of a
\* wall-clock reading localized in tz, as hours of UTC; converting to
\* another zone keeps the instant.
Localize(v, tz) == IF v.t = "num" THEN Num(v.n - UtcOffset(tz)) ELSE Null

DatetimeIndex(f, tz, default_tz) ==
    Frame(f.index_name, Some(default_tz), f.columns,
          [r \in 1..Len(f.rows) |->
             [idx |-> Localize(to_datetime(f.rows[r].idx), tz),
              cells |-> f.rows[r].cells]])

\* ------------------------------------------------------------ dtype cast

Inf == [t |-> "inf", n |-> 0, s |-> <<>>]

\* numpy's cast of an integer to int8 wraps modulo 2^8 without a warning.
Int8Wrap(n) == ((n + 128) % 256) - 128

\* numpy's cast to float16 gives inf beyond the largest float16 and warns
\* "overflow encountered in cast".
Float16Overflows(n) == n > 65504 \/ n < 0 - 65504

\* warnings.filterwarnings(message="overflow", action="ignore"): the action
\* taken for a warning raised inside the catch_warnings block.
WarningAction(message) == IF message = "overflow" THEN "ignore" ELSE "default"

\* The cast of one cell: the value, the exception raised ("" for none) and
\* the warning numpy issues ("" for none).
CastCell(v, kind) ==
    IF v.t = "str" THEN [v |-> v, exc |-> "ValueError", warn |-> ""]
    ELSE IF v.t = "null"
    THEN IF kind = "int8" THEN [v |-> v, exc |-> "ValueError", warn |-> ""]
         ELSE [v |-> v, exc |-> "", warn |-> ""]
    ELSE IF kind = "int8" THEN [v |-> Num(Int8Wrap(v.n)), exc |-> "", warn |-> ""]
    ELSE IF Float16Overflows(v.n) THEN [v |-> Inf, exc |-> "", warn |-> "overflow"]
    ELSE [v |-> v, exc |-> "", warn |-> ""]

\* df.astype({col: kind}) under the warning filter: KeyError when the
\* frame has no such column; ValueError when a cell cannot be converted;
\* RuntimeWarning when the filter turns a warning into an error.
astype(f, dtype) ==
    IF dtype.col \notin ColSet(f) THEN [df |-> f, exc |-> "KeyError"]
    ELSE
    LET i == ColPos(f, dtype.col)
        cast == [r \in 1..Len(f.rows) |-> CastCell(f.rows[r].cells[i], dtype.kind)]
        out == Frame(f.index_name, f.tz, f.columns,
                     [r \in 1..Len(f.rows) |->
                        [idx |-> f.rows[r].idx,
                         cells |-> [f.rows[r].cells EXCEPT ![i] = cast[r].v]]])
    IN  IF \E r \in 1..Len(f.rows) : cast[r].exc = "ValueError"
        THEN [df |-> f, exc |-> "ValueError"]
        ELSE IF \E r \in 1..Len(f.rows) :
                   cast[r].warn # "" /\ WarningAction(cast[r].warn) = "error"
        THEN [df |-> f, exc |-> "RuntimeWarning"]
        ELSE [df |-> out, exc |-> ""]

\* ------------------------------------------------------------ _parse_frame

LogEntry(level, msg) == [level |-> level, msg |-> msg]

Returned(ret, log) == [ret |-> ret, exc |-> "", log |-> log]
Raised(exc, log) == [ret |-> None, exc |-> exc, log |-> log]

\* RobustCSVParser._parse_frame(data, source, logger): ret is the frame or
\* None; exc names an exception that leaves _parse_frame ("" for none);
\* log is what was logged.  The configurations drawn give a dtype only
\* together with parse_dates, so read_csv itself never gets a dtype.
_parse_frame(self, data) ==
    LET rd == read_csv(data, self.sep, self.index_col)
    IN  IF rd.err # ""
        THEN Returned(None, <<LogEntry("ERROR", "Failed reading file")>>)
        ELSE
        LET df == filter_regex(dropna_all(rd.df), self.column_regex)
        IN  IF IsNone(self.parse_dates) \/ ~Val(self.parse_dates)
            THEN Returned(Some(df), <<>>)
            ELSE IF IsNone(df.index_name)
            THEN Raised("TypeError", <<>>)
            ELSE
            LET m == tz_search(Val(df.index_name))
                tz == IF ~IsNone(m) THEN EtcGMT(0 - Val(m)) ELSE self.default_tz
                log == IF ~IsNone(m) THEN <<>>
                       ELSE <<LogEntry("WARNING", "Unable to detect time zone")>>
            IN  IF ~ZoneExists(tz)
                THEN Raised("UnknownTimeZoneError", log)
                ELSE
                LET dfi == DatetimeIndex(df, tz, self.default_tz)
                IN  IF IsNone(self.dtype)
                    THEN Returned(Some(dfi), log)
                    ELSE
                    LET cast == astype(dfi, Val(self.dtype))
                    IN  IF cast.exc \in {"ValueError", "RuntimeWarning"}
                        THEN Returned(None, log \o
                               <<LogEntry("ERROR", "Failed converting data")>>)
                        ELSE IF cast.exc # ""
                        THEN Raised(cast.exc, log)
                        ELSE Returned(Some(cast.df), log)

\* ------------------------------------------------------------ pd.concat

\* The entries of a list of optional frames that are not None, in order.
RECURSIVE Present(_)
Present(fs) ==
    IF Len(fs) = 0 THEN <<>>
    ELSE (IF IsNone(Head(fs)) THEN <<>> ELSE <<Val(Head(fs))>>) \o Present(Tail(fs))

\* The names of cs that are not in seen, in order.
RECURSIVE NewNames(_, _)
NewNames(cs, seen) ==
    IF Len(cs) = 0 THEN <<>>
    ELSE (IF Head(cs) \in seen THEN <<>> ELSE <<Head(cs)>>) \o NewNames(Tail(cs), seen)

\* Column names of the frames in order of first appearance.
RECURSIVE UnionColumns(_, _)
UnionColumns(fs, acc) ==
    IF Len(fs) = 0 THEN acc
    ELSE UnionColumns(Tail(fs),
            acc \o NewNames(Head(fs).columns, {acc[i] : i \in 1..Len(acc)}))

\* The rows of frame f laid out on the columns cols, null where f has no
\* such column.
Reindex(f, cols) ==
    [r \in 1..Len(f.rows) |->
       [idx |-> f.rows[r].idx,
        cells |-> [k \in 1..Len(cols) |->
                     IF cols[k] \in ColSet(f) THEN CellOf(f, r, cols[k]) ELSE Null]]]

RECURSIVE ConcatRows(_, _)
ConcatRows(fs, cols) ==
    IF Len(fs) = 0 THEN <<>>
    ELSE Reindex(Head(fs), cols) \o ConcatRows(Tail(fs), cols)

\* The index name the frames share, None when they differ.
CommonName(fs) ==
    IF \A i \in 1..Len(fs) : fs[i].index_name = fs[1].index_name
    THEN fs[1].index_name ELSE None

\* The zone the indexes of the frames share, None when they differ.
CommonTz(fs) ==
    IF \A i \in 1..Len(fs) : fs[i].tz = fs[1].tz THEN fs[1].tz ELSE None

\* concat with join="inner": only the columns every frame has.
concat_inner(frames) ==
    LET fs == Present(frames)
        all == UnionColumns(fs, <<>>)
        pos == KeptPositions(Len(all), 1,
                  {k \in 1..Len(all) : \A i \in 1..Len(fs) : all[k] \in ColSet(fs[i])})
        cols == [k \in 1..Len(pos) |-> all[pos[k]]]
    IN  IF Len(fs) = 0
        THEN [df |-> EmptyFrame, exc |-> "ValueError"]
        ELSE [df |-> Frame(CommonName(fs), CommonTz(fs), cols,
                           ConcatRows(fs, cols)),
              exc |-> ""]

\* pd.concat(frames, join="outer"): None entries are dropped; ValueError
\* when nothing is left.
concat(frames) ==
    LET fs == Present(frames)
        cols == UnionColumns(fs, <<>>)
    IN  IF Len(fs) = 0
        THEN [df |-> EmptyFrame, exc |-> "ValueError"]
        ELSE [df |-> Frame(CommonName(fs), CommonTz(fs), cols,
                           ConcatRows(fs, cols)),
              exc |-> ""]

\* ------------------------------------------------------------ process_func

\* The callables given as process_func: "head" is lambda df: df.head(1),
\* "fail" raises.
process_func_call(f, df) ==
    IF f = "fail" THEN [df |-> df, exc |-> "Exception"]
    ELSE [df |-> Frame(df.index_name, df.tz, df.columns,
                       SubSeq(df.rows, 1, IF Len(df.rows) > 0 THEN 1 ELSE 0)),
          exc |-> ""]

\* ------------------------------------------------------------ the parser

\* RobustCSVParser.__init__
RobustCSVParser(header_string, header_regex, column_regex, process_func, default_tz, parse_dates, index_col, dtype) ==
    [sep |-> ",",
     header_regex |-> header_regex,
     header_string |-> header_string,
     column_regex |-> IF IsNone(column_regex) \/ Val(column_regex) = <<>>
                      THEN <<".">> ELSE Val(column_regex),
     process_func |-> process_func,
     default_tz |-> default_tz,
     parse_dates |-> parse_dates,
     index_col |-> index_col,
     dtype |-> dtype]

\* Lines 95-97 of parse: guess the header string from the first field of
\* the first line of the file as read, when neither was given.
GuessHeader(self, raw) ==
    IF IsNone(self.header_string) /\ IsNone(self.header_regex)
    THEN [self EXCEPT !.header_string = Some(FirstField(ReadLine(raw), self.sep))]
    ELSE self

\* RestStarts with match.end() taken for match.start().
RestStarts_end(ms) == [i \in 1..(Len(ms) - 1) |-> ms[i + 1].end] \o <<NoneIdx>>

\* [match.start() for match in headerrow_finder] + [None]
RestStarts(ms) == [i \in 1..(Len(ms) - 1) |-> ms[i + 1].start] \o <<NoneIdx>>

VARIABLES
    self,        \* the parser object
    raw,         \* the content of the file being parsed
    pc,          \* where parse is
    data,        \* parse: data
    matches,     \* parse: what headerrow_finder yields
    starts,      \* parse: what is left of the list the for loop runs over
    start_prev,  \* parse: start_prev
    handed,      \* the calls of _parse_frame so far: slice, text, outcome
    frames,      \* parse: frames
    result,      \* what parse returned
    processed,   \* whether process_func was called
    exc,         \* the exception that left parse ("" for none)
    log,         \* the log records of this call of parse
    files,       \* parse_multifile: filepaths, as the contents of the files
    n_jobs,      \* parse_multifile: n_jobs
    self0,       \* the parser object parse_multifile was called on
    cur,         \* the file (1-based) being parsed, 0 for none
    results,     \* per file: its result once parse returned
    finished,    \* the files whose parse has returned
    leftover,    \* per file: the parser object as its parse left it
    bpc,         \* where parse_multifile is
    batch        \* what parse_multifile returned

parse_vars == <<self, raw, pc, data, matches, starts, start_prev, handed,
                frames, result, processed, exc, log>>
batch_vars == <<files, n_jobs, self0, cur, results, finished, leftover, bpc, batch>>
vars == <<parse_vars, batch_vars>>

\* Lines 92-98: open the file, guess the header string, read and strip NULs.
ReadFile ==
    /\ pc = "read"
    /\ self' = GuessHeader(self, raw)
    /\ data' = StripNUL(raw)
    /\ log' = Append(log, LogEntry("INFO", "Reading file"))
    /\ pc' = "find"
    /\ UNCHANGED <<raw, matches, starts, start_prev, handed, frames, result,
                   processed, exc, batch_vars>>

\* FindHeaders without the return of the StopIteration handler: the error
\* is logged and the loop runs from the start of the data.
FindHeaders_noreturn ==
    /\ pc = "find"
    /\ LET ms == finditer(HeaderGroup(self.header_regex, self.header_string), data)
       IN  /\ matches' = ms
           /\ IF Len(ms) = 0
              THEN /\ log' = Append(log, LogEntry("ERROR", "No header found"))
                   /\ start_prev' = 0
                   /\ starts' = <<NoneIdx>>
              ELSE /\ start_prev' = ms[1].start
                   /\ starts' = RestStarts(ms)
                   /\ UNCHANGED log
    /\ pc' = "loop"
    /\ UNCHANGED <<self, raw, data, handed, frames, result, processed, exc, batch_vars>>

\* Lines 100-113: compile the pattern, find the header rows, take the first.
FindHeaders ==
    /\ pc = "find"
    /\ LET ms == finditer(HeaderGroup(self.header_regex, self.header_string), data)
       IN  /\ matches' = ms
           /\ IF Len(ms) = 0
              THEN /\ log' = Append(log, LogEntry("ERROR", "No header found"))
                   /\ result' = None
                   /\ pc' = "done"
                   /\ UNCHANGED <<start_prev, starts>>
              ELSE /\ start_prev' = ms[1].start
                   /\ starts' = RestStarts(ms)
                   /\ pc' = "loop"
                   /\ UNCHANGED <<log, result>>
    /\ UNCHANGED <<self, raw, data, handed, frames, processed, exc, batch_vars>>

\* Lines 115-123: one round of the for loop.
ParseBlock ==
    /\ pc = "loop"
    /\ LET start == Head(starts)
           r == _parse_frame(self, Slice(data, start_prev, start))
       IN  /\ handed' = Append(handed,
                 [lo |-> start_prev,
                  hi |-> IF start = NoneIdx THEN Len(data) ELSE start,
                  text |-> Slice(data, start_prev, start),
                  exc |-> r.exc,
                  log |-> r.log])
           /\ log' = log \o r.log
           /\ IF r.exc # ""
              THEN /\ exc' = r.exc
                   /\ pc' = "raised"
                   /\ UNCHANGED <<frames, start_prev, starts>>
              ELSE /\ frames' = Append(frames, r.ret)
                   /\ start_prev' = start
                   /\ starts' = Tail(starts)
                   /\ pc' = IF Len(starts) = 1 THEN "join" ELSE "loop"
                   /\ UNCHANGED exc
    /\ UNCHANGED <<self, raw, data, matches, result, processed, batch_vars>>

\* Lines 125-140: join the frames, call process_func, return.
Join ==
    /\ pc = "join"
    /\ LET j == concat(frames)
       IN  IF j.exc # ""
           THEN /\ log' = Append(log, LogEntry("ERROR", "All empty data"))
                /\ result' = None
                /\ UNCHANGED processed
           ELSE IF self.process_func = "none"
           THEN /\ result' = Some(j.df)
                /\ UNCHANGED <<log, processed>>
           ELSE LET p == process_func_call(self.process_func, j.df)
                IN  /\ processed' = TRUE
                    /\ IF p.exc # ""
                       THEN /\ log' = Append(log,
                                  LogEntry("ERROR", "Unable to process file"))
                            /\ result' = None
                       ELSE /\ result' = Some(p.df)
                            /\ UNCHANGED log
    /\ pc' = "done"
    /\ UNCHANGED <<self, raw, data, matches, starts, start_prev, handed, frames,
                   exc, batch_vars>>

Parse == ReadFile \/ FindHeaders \/ ParseBlock \/ Join

\* RobustCSVParser.parse as one function of the parser object and the
\* content of the file: what it returns, the exception that leaves it, and
\* the parser object afterwards.
parse(obj, content) ==
    LET s1 == GuessHeader(obj, content)
        d == StripNUL(content)
        ms == finditer(HeaderGroup(s1.header_regex, s1.header_string), d)
        his == RestStarts(ms)
        los == [i \in 1..Len(ms) |-> IF i = 1 THEN ms[1].start ELSE his[i - 1]]
        outs == [i \in 1..Len(ms) |-> _parse_frame(s1, Slice(d, los[i], his[i]))]
        bad == {i \in 1..Len(ms) : outs[i].exc # ""}
        j == concat([i \in 1..Len(ms) |-> outs[i].ret])
        p == process_func_call(s1.process_func, j.df)
    IN  IF Len(ms) = 0 THEN [result |-> None, exc |-> "", self |-> s1]
        ELSE IF bad # {}
        THEN [result |-> None,
              exc |-> outs[CHOOSE i \in bad : \A k \in bad : i <= k].exc,
              self |-> s1]
        ELSE IF j.exc # "" THEN [result |-> None, exc |-> "", self |-> s1]
        ELSE IF s1.process_func = "none"
        THEN [result |-> Some(j.df), exc |-> "", self |-> s1]
        ELSE IF p.exc # "" THEN [result |-> None, exc |-> "", self |-> s1]
        ELSE [result |-> Some(p.df), exc |-> "", self |-> s1]

\* ------------------------------------------------------------ parse_multifile

\* The parser object a call of parse runs on.  With n_jobs = 1 it is the
\* object parse_multifile was called on, as the calls before left it.  With
\* n_jobs > 1 every task carries a pickled copy of that object; tasks
\* pickled in one joblib batch share one copy, so a task runs on a fresh
\* copy or on the copy the task before it left.
TaskObjects(i) ==
    {self0} \cup (IF i - 1 \in finished THEN {leftover[i - 1]} ELSE {})

Call(i, obj) ==
    /\ cur' = i
    /\ self' = obj
    /\ raw' = files[i]
    /\ pc' = "read"
    /\ data' = <<>>
    /\ matches' = <<>>
    /\ starts' = <<>>
    /\ start_prev' = 0
    /\ handed' = <<>>
    /\ frames' = <<>>
    /\ result' = None
    /\ processed' = FALSE
    /\ exc' = ""
    /\ UNCHANGED <<log, files, n_jobs, self0, results, finished, leftover, bpc, batch>>

\* Lines 155-165: the next call of self.parse, in file order when n_jobs
\* is 1, in any order of the workers otherwise.
StartFile ==
    /\ bpc = "run"
    /\ cur = 0
    /\ \/ /\ n_jobs <= 1
          /\ \E i \in 1..Len(files) :
                /\ i \notin finished
                /\ \A j \in 1..(i - 1) : j \in finished
                /\ Call(i, self)
       \/ /\ n_jobs > 1
          /\ \E i \in 1..Len(files) :
                /\ i \notin finished
                /\ \E obj \in TaskObjects(i) : Call(i, obj)

\* A call of self.parse ends: its result is kept at the file's place, or
\* its exception leaves parse_multifile.
Collect ==
    /\ bpc = "run"
    /\ cur # 0
    /\ pc \in {"done", "raised"}
    /\ IF pc = "raised"
       THEN /\ bpc' = "raised"
            /\ UNCHANGED <<results, finished, leftover, cur>>
       ELSE /\ results' = [results EXCEPT ![cur] = result]
            /\ finished' = finished \cup {cur}
            /\ leftover' = [leftover EXCEPT ![cur] = self]
            /\ cur' = 0
            /\ UNCHANGED bpc
    /\ pc' = "idle"
    /\ UNCHANGED <<self, raw, data, matches, starts, start_prev, handed, frames,
                   result, processed, exc, log, files, n_jobs, self0, batch>>

\* Lines 166-170: join the results of the files.
BatchConcat ==
    /\ bpc = "run"
    /\ cur = 0
    /\ finished = 1..Len(files)
    /\ LET j == concat(results)
       IN  IF j.exc # ""
           THEN /\ log' = Append(log, LogEntry("ERROR", "All empty frames"))
                /\ batch' = None
           ELSE /\ batch' = Some(j.df)
                /\ UNCHANGED log
    /\ bpc' = "done"
    /\ UNCHANGED <<self, raw, pc, data, matches, starts, start_prev, handed,
                   frames, result, processed, exc, files, n_jobs, self0, cur,
                   results, finished, leftover>>

\* ------------------------------------------------------------ inputs

\* The documents of at most n lines drawn from lines, each line ended by a
\* newline.
DocsOf(lines, n) ==
    UNION {{Flatten([i \in 1..k |-> ls[i] \o <<NL>>]) : ls \in [1..k -> lines]}
           : k \in 0..n}

\* Two header lines (the second with a NUL in its first field), a data
\* line, and a data line with the marker in its second field.
Lines ==
    {<<"H", ",", "A">>, <<"H", NUL, ",", "B">>, <<"1", ",", "2">>, <<"3", ",", "H">>}

Docs == DocsOf(Lines, MaxLines)

Plain(header_string, header_regex, column_regex, process_func, index_col) ==
    RobustCSVParser(header_string, header_regex, column_regex, process_func,
                    UTC, None, index_col, None)

Parsers ==
    {Plain(Some(<<"H">>), None, None, "none", Some(0)),
     Plain(None, None, None, "none", Some(0)),
     Plain(None, Some(<<"H", ".">>), None, "none", Some(0)),
     Plain(Some(<<"3">>), Some(<<"H">>), None, "none", Some(0)),
     Plain(Some(<<"H">>), None, Some(<<"B">>), "none", Some(0)),
     Plain(Some(<<"H">>), None, None, "head", Some(0)),
     Plain(None, None, None, "fail", Some(0)),
     Plain(Some(<<"H">>), None, None, "none", None)}

\* Header lines whose index name gives UTC+2, UTC+15 or no offset, and
\* data lines: a timestamp, an unparseable timestamp, a value beyond int8
\* and float16, an empty cell.
TzLines ==
    {<<"H", "U", "T", "C", "+", "2", ",", "A">>,
     <<"H", "U", "T", "C", "+", "1", "5", ",", "A">>,
     <<"H", ",", "A">>,
     <<"5", ",", "2">>,
     <<"x", ",", "3">>,
     <<"7", ",", "7", "0", "0", "0", "0">>,
     <<"9", ",">>}

TzDocs == DocsOf(TzLines, MaxTzLines)

Dated(default_tz, parse_dates, index_col, dtype) ==
    RobustCSVParser(Some(<<"H">>), None, None, "none",
                    default_tz, parse_dates, index_col, dtype)

TzParsers ==
    {Dated(UTC, Some(TRUE), Some(0), None),
     Dated(EtcGMT(0 - 3), Some(TRUE), Some(0), None),
     Dated(UTC, Some(TRUE), None, None),
     Dated(UTC, Some(TRUE), Some(0), Some([col |-> <<"A">>, kind |-> "int8"])),
     Dated(UTC, Some(TRUE), Some(0), Some([col |-> <<"A">>, kind |-> "float16"])),
     Dated(UTC, Some(FALSE), Some(0), Some([col |-> <<"A">>, kind |-> "int8"]))}

Inputs == (Parsers \X Docs) \cup (TzParsers \X TzDocs)

\* ------------------------------------------------------------ Spec: parse

\* A call parser.parse(file) on a newly constructed parser.
Init ==
    /\ \E in \in Inputs : /\ self = in[1]
                          /\ raw = in[2]
    /\ pc = "read"
    /\ data = <<>>
    /\ matches = <<>>
    /\ starts = <<>>
    /\ start_prev = 0
    /\ handed = <<>>
    /\ frames = <<>>
    /\ result = None
    /\ processed = FALSE
    /\ exc = ""
    /\ log = <<>>
    /\ files = <<raw>>
    /\ n_jobs = 1
    /\ self0 = self
    /\ cur = 0
    /\ results = <<None>>
    /\ finished = {}
    /\ leftover = <<self>>
    /\ bpc = "none"
    /\ batch = None

Next == Parse

Spec == Init /\ [][Next]_vars

\* ---------------------------------------------------- SpecBatch: parse_multifile

BatchLines == {<<"H", ",", "A">>, <<"G", ",", "B">>, <<"1", ",", "2">>}

BatchDocs == DocsOf(BatchLines, MaxBatchLines)

FileLists == UNION {[1..k -> BatchDocs] : k \in 0..MaxFiles}

BatchParsers ==
    {Plain(None, None, None, "none", Some(0)),
     Plain(Some(<<"H">>), None, None, "none", Some(0)),
     Dated(UTC, Some(TRUE), None, None)}

\* A call parser.parse_multifile(files, n_jobs) on a newly constructed parser.
InitBatch ==
    /\ self0 \in BatchParsers
    /\ files \in FileLists
    /\ n_jobs \in {1, 2}
    /\ self = self0
    /\ raw = <<>>
    /\ pc = "idle"
    /\ data = <<>>
    /\ matches = <<>>
    /\ starts = <<>>
    /\ start_prev = 0
    /\ handed = <<>>
    /\ frames = <<>>
    /\ result = None
    /\ processed = FALSE
    /\ exc = ""
    /\ log = <<>>
    /\ cur = 0
    /\ results = [i \in 1..Len(files) |-> None]
    /\ finished = {}
    /\ leftover = [i \in 1..Len(files) |-> self0]
    /\ bpc = "run"
    /\ batch = None

NextBatch == Parse \/ StartFile \/ Collect \/ BatchConcat

SpecBatch == InitBatch /\ [][NextBatch]_vars

\* ------------------------------------------------------------ properties

\* In a call on a newly constructed parser (Spec), the step-by-step parse
\* and the function parse agree.
ParseAgrees ==
    /\ pc = "done" =>
          /\ result = parse(self0, raw).result
          /\ self = parse(self0, raw).self
          /\ parse(self0, raw).exc = ""
    /\ pc = "raised" => exc = parse(self0, raw).exc

ErrorCount == Cardinality({i \in 1..Len(log) : log[i].level = "ERROR"})

\* The blocks whose frame is not None.
PresentIdx == {i \in 1..Len(frames) : ~IsNone(frames[i])}

\* The number of rows of the frames before block i.
RECURSIVE RowsBefore(_)
RowsBefore(i) ==
    IF i <= 1 THEN 0
    ELSE RowsBefore(i - 1) +
         (IF IsNone(frames[i - 1]) THEN 0 ELSE Len(Val(frames[i - 1]).rows))

\* C1: when parse returns without a process_func and some block gave a
\* frame, the result has the rows of the frames of the blocks one after
\* another in block order, its columns are the union of their columns, and
\* a cell is the block's cell where the block has the column and null where
\* it has not.
C1_OuterJoinMerge ==
    (pc = "done" /\ self.process_func = "none" /\ PresentIdx # {}) =>
        /\ Len(frames) = Len(matches)
        /\ ~IsNone(result)
        /\ LET df == Val(result)
           IN  /\ Len(df.rows) = RowsBefore(Len(frames) + 1)
               /\ ColSet(df) = UNION {ColSet(Val(frames[i])) : i \in PresentIdx}
               /\ Cardinality(ColSet(df)) = Len(df.columns)
               /\ \A i \in PresentIdx :
                    LET f == Val(frames[i])
                    IN  \A r \in 1..Len(f.rows) :
                          LET k == RowsBefore(i) + r
                          IN  /\ df.rows[k].idx = f.rows[r].idx
                              /\ \A c \in ColSet(df) :
                                   CellOf(df, k, c) =
                                     IF c \in ColSet(f) THEN CellOf(f, r, c) ELSE Null

\* Two blocks with rows, each with a column the other lacks, were merged.
C1_Witness ==
    /\ pc = "done"
    /\ self.process_func = "none"
    /\ ~IsNone(result)
    /\ \E i, j \in PresentIdx :
          /\ i < j
          /\ Len(Val(frames[i]).rows) > 0
          /\ Len(Val(frames[j]).rows) > 0
          /\ ColSet(Val(frames[i])) \ ColSet(Val(frames[j])) # {}
          /\ ColSet(Val(frames[j])) \ ColSet(Val(frames[i])) # {}
          /\ \E c \in ColSet(Val(frames[j])) \ ColSet(Val(frames[i])) :
                CellOf(Val(result), RowsBefore(i) + 1, c) = Null

\* The slices the matches call for: [o_i, o_i+1) and [o_K, len(data)).
ExpectedSlice(i) ==
    [lo |-> matches[i].start,
     hi |-> IF i < Len(matches) THEN matches[i + 1].start ELSE Len(data)]

C8_NoHeader ==
    (pc \notin {"read", "find"} /\ Len(matches) = 0) =>
        /\ pc = "done"
        /\ IsNone(result)
        /\ ErrorCount = 1
        /\ handed = <<>>
        /\ frames = <<>>
        /\ ~processed
        /\ exc = ""

\* A parser with a process_func returned from a document with text but no
\* header.
C8_Witness ==
    /\ pc = "done"
    /\ Len(matches) = 0
    /\ Len(data) > 0
    /\ self.process_func # "none"

\* C5: every header match starts a line of the data (offset 0, or right
\* after a newline), and the matches are strictly increasing in offset and
\* do not overlap.
C5_LineAnchored ==
    pc \notin {"read", "find"} =>
        \A i \in 1..Len(matches) :
            /\ matches[i].start = 0 \/ data[matches[i].start] = NL
            /\ i < Len(matches) =>
                  /\ matches[i].start < matches[i + 1].start
                  /\ matches[i].end <= matches[i + 1].start

\* C7: parse returns for a document what it returns for the document with
\* its NUL characters deleted.
C7_NulTwin ==
    /\ pc = "done" =>
          /\ parse(self0, StripNUL(raw)).exc = ""
          /\ result = parse(self0, StripNUL(raw)).result
    /\ pc = "raised" => exc = parse(self0, StripNUL(raw)).exc

\* C4: no call of _parse_frame ends with an exception: each returns a frame
\* or None, and parse goes on to the next block.
C4_NoEscape ==
    /\ pc # "raised"
    /\ \A i \in 1..Len(handed) : handed[i].exc = ""

WarningCount(entries) ==
    Cardinality({i \in 1..Len(entries) : entries[i].level = "WARNING"})

DatesEnabled == ~IsNone(self.parse_dates) /\ Val(self.parse_dates)

\* The table read_csv, dropna and filter give for a text.
ReadBlock(text) ==
    filter_regex(dropna_all(read_csv(text, self.sep, self.index_col).df),
                 self.column_regex)

Readable(text) == read_csv(text, self.sep, self.index_col).err = ""

\* The offset the index name gives, None when the index is unnamed or its
\* name has no UTC+<n>.
NamedOffset(f) ==
    IF IsNone(f.index_name) THEN None ELSE tz_search(Val(f.index_name))

\* C9: with date parsing, a block whose index name has UTC+<n> gets every
\* timestamp read as wall-clock time n hours east of UTC, and a block
\* without it gets them localized in the default zone with one warning; in
\* both cases the index is in the default zone and an unparseable value is
\* null, and the block does not fail.
C9_FixedOffset ==
    DatesEnabled =>
        \A i \in 1..Len(handed) :
            Readable(handed[i].text) =>
                LET src == ReadBlock(handed[i].text)
                    m == NamedOffset(src)
                    east == IF IsNone(m) THEN UtcOffset(self.default_tz) ELSE Val(m)
                IN  /\ handed[i].exc = ""
                    /\ WarningCount(handed[i].log) = IF IsNone(m) THEN 1 ELSE 0
                    /\ (i <= Len(frames) /\ ~IsNone(frames[i])) =>
                          LET f == Val(frames[i])
                          IN  /\ f.tz = Some(self.default_tz)
                              /\ Len(f.rows) = Len(src.rows)
                              /\ \A r \in 1..Len(f.rows) :
                                   f.rows[r].idx =
                                     IF src.rows[r].idx.t = "num"
                                     THEN Num(src.rows[r].idx.n - east)
                                     ELSE Null

\* The part of C9 for the blocks whose _parse_frame raised nothing.
C9_WhenReturned ==
    DatesEnabled =>
        \A i \in 1..Len(handed) :
            (Readable(handed[i].text) /\ handed[i].exc = "") =>
                LET src == ReadBlock(handed[i].text)
                    m == NamedOffset(src)
                    east == IF IsNone(m) THEN UtcOffset(self.default_tz) ELSE Val(m)
                IN  /\ WarningCount(handed[i].log) = IF IsNone(m) THEN 1 ELSE 0
                    /\ (i <= Len(frames) /\ ~IsNone(frames[i])) =>
                          LET f == Val(frames[i])
                          IN  /\ f.tz = Some(self.default_tz)
                              /\ Len(f.rows) = Len(src.rows)
                              /\ \A r \in 1..Len(f.rows) :
                                   f.rows[r].idx =
                                     IF src.rows[r].idx.t = "num"
                                     THEN Num(src.rows[r].idx.n - east)
                                     ELSE Null

\* C10: with date parsing and a dtype, a frame _parse_frame returns holds
\* no overflowed value: every number of the cast column is the number that
\* was read.
C10_NoOverflowedValue ==
    (DatesEnabled /\ ~IsNone(self.dtype)) =>
        \A i \in 1..Len(frames) :
            ~IsNone(frames[i]) =>
                LET f == Val(frames[i])
                    src == ReadBlock(handed[i].text)
                    c == Val(self.dtype).col
                IN  c \in ColSet(f) =>
                        \A r \in 1..Len(f.rows) :
                            /\ CellOf(f, r, c).t # "inf"
                            /\ CellOf(src, r, c).t = "num" =>
                                  CellOf(f, r, c) = CellOf(src, r, c)

\* C6: on a parser constructed with neither header_string nor
\* header_regex, every call of parse looks for the first field of the
\* first line of its own file, and returns what a new parser returns for
\* that file.
C6_OwnMarker ==
    (IsNone(self0.header_string) /\ IsNone(self0.header_regex) /\ cur # 0) =>
        /\ pc \in {"find", "loop", "join", "done", "raised"} =>
              self.header_string = Some(FirstField(ReadLine(raw), self.sep))
        /\ pc = "done" => result = parse(self0, raw).result

\* The outer-join merge of the results a new parser gives for each file.
MergeOfFiles ==
    LET j == concat([i \in 1..Len(files) |-> parse(self0, files[i]).result])
    IN  IF j.exc # "" THEN None ELSE Some(j.df)

\* C3: parse_multifile returns the merge, in file order, of the results of
\* the files, whatever n_jobs is and in whatever order the calls end.
C3_BatchMerge == bpc = "done" => batch = MergeOfFiles

====
